---- MODULE Spec2Model ----
(***************************************************************************)
(* A model of the workflow catalog of workflow_db.py: the corpus on disk,  *)
(* the SQLite store (table workflows, its FTS5 index workflows_fts and the *)
(* triggers that feed it), the Document Analyzer and the indexing run      *)
(* index_all_workflows.                                                    *)
(***************************************************************************)
EXTENDS Integers, Sequences, FiniteSets, TLC

(***************************************************************************)
(* Python str operations.  A str is modelled by its sequence of one-letter *)
(* strings; Str turns such a sequence back into a TLA+ string.             *)
(***************************************************************************)
LowerLetters ==
  << "a", "b", "c", "d", "e", "f", "g", "h", "i", "j", "k", "l", "m",
     "n", "o", "p", "q", "r", "s", "t", "u", "v", "w", "x", "y", "z" >>

UpperLetters ==
  << "A", "B", "C", "D", "E", "F", "G", "H", "I", "J", "K", "L", "M",
     "N", "O", "P", "Q", "R", "S", "T", "U", "V", "W", "X", "Y", "Z" >>

DigitChars ==
  << "0", "1", "2", "3", "4", "5", "6", "7", "8", "9" >>

IsUpper(c) == \E i \in 1..26 : UpperLetters[i] = c

IsLower(c) == \E i \in 1..26 : LowerLetters[i] = c

IsAlpha(c) == IsUpper(c) \/ IsLower(c)

ToLower(c) ==
  IF IsUpper(c) THEN LowerLetters[CHOOSE i \in 1..26 : UpperLetters[i] = c] ELSE c

ToUpper(c) ==
  IF IsLower(c) THEN UpperLetters[CHOOSE i \in 1..26 : LowerLetters[i] = c] ELSE c

\* str.lower()
str_lower(cs) == [i \in 1..Len(cs) |-> ToLower(cs[i])]

\* sub in s
str_in(sub, cs) ==
  \E i \in 1..(Len(cs) - Len(sub) + 1) : SubSeq(cs, i, i + Len(sub) - 1) = sub

\* s.startswith(pre)
str_startswith(cs, pre) ==
  Len(pre) <= Len(cs) /\ SubSeq(cs, 1, Len(pre)) = pre

\* s.replace(old, new): every non-overlapping occurrence, left to right
RECURSIVE str_replace(_, _, _)
str_replace(cs, old, new) ==
  IF Len(cs) < Len(old) \/ old = << >> THEN cs
  ELSE IF SubSeq(cs, 1, Len(old)) = old
       THEN new \o str_replace(SubSeq(cs, Len(old) + 1, Len(cs)), old, new)
       ELSE << cs[1] >> \o str_replace(Tail(cs), old, new)

\* s.split(sep) for a one-letter separator
RECURSIVE str_split(_, _)
str_split(cs, sep) ==
  IF \A i \in 1..Len(cs) : cs[i] # sep THEN << cs >>
  ELSE LET i == CHOOSE k \in 1..Len(cs) :
                  cs[k] = sep /\ \A j \in 1..(k - 1) : cs[j] # sep
       IN  << SubSeq(cs, 1, i - 1) >> \o str_split(SubSeq(cs, i + 1, Len(cs)), sep)

\* s.isdigit()
str_isdigit(cs) ==
  cs # << >> /\ \A i \in 1..Len(cs) : \E d \in 1..10 : DigitChars[d] = cs[i]

\* s.capitalize()
str_capitalize(cs) ==
  IF cs = << >> THEN << >> ELSE << ToUpper(cs[1]) >> \o str_lower(Tail(cs))

\* s.title(): a letter is upper-cased when no letter precedes it, lower-cased otherwise
str_title(cs) ==
  [i \in 1..Len(cs) |->
     IF i = 1 \/ ~IsAlpha(cs[i - 1]) THEN ToUpper(cs[i]) ELSE ToLower(cs[i])]

\* s.strip()
RECURSIVE str_strip(_)
str_strip(cs) ==
  IF cs = << >> THEN cs
  ELSE IF cs[1] = " " THEN str_strip(Tail(cs))
  ELSE IF cs[Len(cs)] = " " THEN str_strip(SubSeq(cs, 1, Len(cs) - 1))
  ELSE cs

\* sep.join(parts)
RECURSIVE str_join(_, _)
str_join(sep, parts) ==
  IF parts = << >> THEN << >>
  ELSE IF Len(parts) = 1 THEN parts[1]
  ELSE parts[1] \o sep \o str_join(sep, Tail(parts))

\* the TLA+ string spelled by a sequence of letters
RECURSIVE Str(_)
Str(cs) == IF cs = << >> THEN "" ELSE cs[1] \o Str(Tail(cs))

\* str(n) for a natural number
RECURSIVE IntStr(_)
IntStr(n) ==
  IF n < 10 THEN DigitChars[n + 1] ELSE IntStr(n \div 10) \o DigitChars[(n % 10) + 1]

(***************************************************************************)
(* The Document Analyzer.                                                  *)
(***************************************************************************)
\* Python's None, among values that are strings otherwise
None == "<None>"

\* service_mappings of analyze_nodes, in the order of the dict
service_mappings ==
  << <<"telegram", "Telegram">>,
     <<"telegramTrigger", "Telegram">>,
     <<"discord", "Discord">>,
     <<"slack", "Slack">>,
     <<"whatsapp", "WhatsApp">>,
     <<"mattermost", "Mattermost">>,
     <<"teams", "Microsoft Teams">>,
     <<"rocketchat", "Rocket.Chat">>,
     <<"gmail", "Gmail">>,
     <<"mailjet", "Mailjet">>,
     <<"emailreadimap", "Email (IMAP)">>,
     <<"emailsendsmt", "Email (SMTP)">>,
     <<"outlook", "Outlook">>,
     <<"googledrive", "Google Drive">>,
     <<"googledocs", "Google Docs">>,
     <<"googlesheets", "Google Sheets">>,
     <<"dropbox", "Dropbox">>,
     <<"onedrive", "OneDrive">>,
     <<"box", "Box">>,
     <<"postgres", "PostgreSQL">>,
     <<"mysql", "MySQL">>,
     <<"mongodb", "MongoDB">>,
     <<"redis", "Redis">>,
     <<"airtable", "Airtable">>,
     <<"notion", "Notion">>,
     <<"jira", "Jira">>,
     <<"github", "GitHub">>,
     <<"gitlab", "GitLab">>,
     <<"trello", "Trello">>,
     <<"asana", "Asana">>,
     <<"mondaycom", "Monday.com">>,
     <<"openai", "OpenAI">>,
     <<"anthropic", "Anthropic">>,
     <<"huggingface", "Hugging Face">>,
     <<"linkedin", "LinkedIn">>,
     <<"twitter", "Twitter/X">>,
     <<"facebook", "Facebook">>,
     <<"instagram", "Instagram">>,
     <<"shopify", "Shopify">>,
     <<"stripe", "Stripe">>,
     <<"paypal", "PayPal">>,
     <<"googleanalytics", "Google Analytics">>,
     <<"mixpanel", "Mixpanel">>,
     <<"googlecalendar", "Google Calendar">>,
     <<"googletasks", "Google Tasks">>,
     <<"cal", "Cal.com">>,
     <<"calendly", "Calendly">>,
     <<"typeform", "Typeform">>,
     <<"googleforms", "Google Forms">>,
     <<"form", "Form Trigger">>,
     <<"webhook", "Webhook">>,
     <<"httpRequest", "HTTP Request">>,
     <<"graphql", "GraphQL">>,
     <<"sse", "Server-Sent Events">>,
     <<"set", None>>,
     <<"function", None>>,
     <<"code", None>>,
     <<"if", None>>,
     <<"switch", None>>,
     <<"merge", None>>,
     <<"split", None>>,
     <<"stickynote", None>>,
     <<"stickyNote", None>>,
     <<"wait", None>>,
     <<"schedule", None>>,
     <<"cron", None>>,
     <<"manual", None>>,
     <<"stopanderror", None>>,
     <<"noop", None>>,
     <<"noOp", None>>,
     <<"error", None>>,
     <<"limit", None>>,
     <<"aggregate", None>>,
     <<"summarize", None>>,
     <<"filter", None>>,
     <<"sort", None>>,
     <<"removeDuplicates", None>>,
     <<"dateTime", None>>,
     <<"extractFromFile", None>>,
     <<"convertToFile", None>>,
     <<"readBinaryFile", None>>,
     <<"readBinaryFiles", None>>,
     <<"executionData", None>>,
     <<"executeWorkflow", None>>,
     <<"executeCommand", None>>,
     <<"respondToWebhook", None>> >>

\* the letters of a string, one by one
Chars(s) == [i \in 1..Len(s) |-> SubSeq(s, i, i)]

\* dict.get(key, default)
dict_get(d, key, default) == IF key \in DOMAIN d THEN d[key] ELSE default

\* service_mappings.get(raw_service, default), raw_service given by its letters
mappings_get(raw, default) ==
  IF \E i \in 1..Len(service_mappings) : Chars(service_mappings[i][1]) = raw
  THEN service_mappings[CHOOSE i \in 1..Len(service_mappings) :
                          Chars(service_mappings[i][1]) = raw][2]
  ELSE default

\* format_workflow_name: the readable name made from a file name
format_workflow_name(filename) ==
  LET name   == str_replace(Chars(filename), Chars(".json"), << >>)
      parts0 == str_split(name, "_")
      parts  == IF Len(parts0) > 1 /\ str_isdigit(parts0[1]) THEN Tail(parts0) ELSE parts0
      readable(part) ==
        CASE str_lower(part) = Chars("http")       -> Chars("HTTP")
          [] str_lower(part) = Chars("api")        -> Chars("API")
          [] str_lower(part) = Chars("webhook")    -> Chars("Webhook")
          [] str_lower(part) = Chars("automation") -> Chars("Automation")
          [] str_lower(part) = Chars("automate")   -> Chars("Automate")
          [] str_lower(part) = Chars("scheduled")  -> Chars("Scheduled")
          [] str_lower(part) = Chars("triggered")  -> Chars("Triggered")
          [] str_lower(part) = Chars("manual")     -> Chars("Manual")
          [] OTHER                                 -> str_capitalize(part)
  IN  str_join(<< " " >>, [i \in 1..Len(parts) |-> readable(parts[i])])

\* node_trigger_type with the bug of testing for cron and schedule before webhook
node_trigger_type_schedule_first(trigger_type, node) ==
  LET node_type == str_lower(Chars(dict_get(node, "type", "")))
      node_name == str_lower(Chars(dict_get(node, "name", "")))
  IN  IF str_in(Chars("cron"), node_type) \/ str_in(Chars("schedule"), node_type)
      THEN "Scheduled"
      ELSE IF str_in(Chars("webhook"), node_type) \/ str_in(Chars("webhook"), node_name)
      THEN "Webhook"
      ELSE IF str_in(Chars("trigger"), node_type) /\ trigger_type = "Manual"
      THEN IF ~str_in(Chars("manual"), node_type) THEN "Webhook" ELSE trigger_type
      ELSE trigger_type

\* the trigger type after one node of the loop of analyze_nodes
node_trigger_type(trigger_type, node) ==
  LET node_type == str_lower(Chars(dict_get(node, "type", "")))
      node_name == str_lower(Chars(dict_get(node, "name", "")))
  IN  IF str_in(Chars("webhook"), node_type) \/ str_in(Chars("webhook"), node_name)
      THEN "Webhook"
      ELSE IF str_in(Chars("cron"), node_type) \/ str_in(Chars("schedule"), node_type)
      THEN "Scheduled"
      ELSE IF str_in(Chars("trigger"), node_type) /\ trigger_type = "Manual"
      THEN IF ~str_in(Chars("manual"), node_type) THEN "Webhook" ELSE trigger_type
      ELSE trigger_type

\* the service a node's type stands for (None when it stands for none)
type_service_name(node_type) ==
  LET from_raw(raw0) ==
        LET raw == str_replace(raw0, Chars("trigger"), << >>)
        IN  mappings_get(raw, IF raw # << >> THEN Str(str_title(raw)) ELSE None)
      custom(parts) ==
        LET hit(part) == \/ str_in(Chars("youtube"), part)
                         \/ str_in(Chars("telegram"), part)
                         \/ str_in(Chars("discord"), part)
                         \/ str_in(Chars("calcslive"), part)
        IN  IF \A i \in 1..Len(parts) : ~hit(parts[i]) THEN None
            ELSE LET part == parts[CHOOSE i \in 1..Len(parts) :
                                     hit(parts[i]) /\ \A j \in 1..(i - 1) : ~hit(parts[j])]
                 IN  IF str_in(Chars("youtube"), part) THEN "YouTube"
                     ELSE IF str_in(Chars("telegram"), part) THEN "Telegram"
                     ELSE IF str_in(Chars("discord"), part) THEN "Discord"
                     ELSE "CalcsLive"
  IN  IF str_startswith(node_type, Chars("n8n-nodes-base."))
      THEN from_raw(str_lower(str_replace(node_type, Chars("n8n-nodes-base."), << >>)))
      ELSE IF str_startswith(node_type, Chars("@n8n/"))
      THEN from_raw(IF str_in(Chars("."), node_type)
                    THEN LET parts == str_split(node_type, ".")
                         IN  str_lower(parts[Len(parts)])
                    ELSE str_lower(node_type))
      ELSE IF str_in(Chars("-"), node_type) \/ str_in(Chars("@"), node_type)
      THEN custom(str_split(str_lower(node_type), "."))
      ELSE None

\* the scan of the node name over service_mappings, in the table's order
name_service_name(node_name, service_name) ==
  LET guarded(i) ==
        /\ service_mappings[i][1] = "cal"
        /\ \/ str_in(Chars("calcslive"), str_lower(node_name))
           \/ str_in(Chars("calc"), str_lower(node_name))
           \/ str_in(Chars("calculation"), str_lower(node_name))
      match(i) ==
        /\ str_in(Chars(service_mappings[i][1]), node_name)
        /\ service_mappings[i][2] # None
        /\ ~guarded(i)
  IN  IF \E i \in 1..Len(service_mappings) : match(i)
      THEN service_mappings[CHOOSE i \in 1..Len(service_mappings) :
                              match(i) /\ \A j \in 1..(i - 1) : ~match(j)][2]
      ELSE service_name

\* the service one node contributes to the integrations (None when it contributes none)
node_service_name(node) ==
  LET node_type == Chars(dict_get(node, "type", ""))
      node_name == str_lower(Chars(dict_get(node, "name", "")))
  IN  name_service_name(node_name, type_service_name(node_type))

\* analyze_nodes: the trigger type and the set of integrations of a node list
RECURSIVE nodes_loop(_, _, _, _)
nodes_loop(nodes, i, trigger_type, integrations) ==
  IF i > Len(nodes) THEN [trigger_type |-> trigger_type, integrations |-> integrations]
  ELSE LET service_name == node_service_name(nodes[i])
       IN  nodes_loop(nodes, i + 1, node_trigger_type(trigger_type, nodes[i]),
                      IF service_name \notin {"", "None", None}
                      THEN integrations \cup {service_name} ELSE integrations)

\* analyze_nodes with the bug of escalating on either count alone
analyze_nodes_either(nodes) ==
  LET r == nodes_loop(nodes, 1, "Manual", {})
  IN  IF Len(nodes) > 10 \/ Cardinality(r.integrations) > 3
      THEN [r EXCEPT !.trigger_type = "Complex"]
      ELSE r

analyze_nodes(nodes) ==
  LET r == nodes_loop(nodes, 1, "Manual", {})
  IN  IF Len(nodes) > 10 /\ Cardinality(r.integrations) > 3
      THEN [r EXCEPT !.trigger_type = "Complex"]
      ELSE r

\* the orders in which list(integrations) can enumerate the set
SetOrders(S) ==
  {s \in [1..Cardinality(S) -> S] : \A i, j \in 1..Cardinality(S) : s[i] = s[j] => i = j}

\* at most the first n elements of a list: lst[:n]
FirstN(lst, n) == SubSeq(lst, 1, IF Len(lst) < n THEN Len(lst) ELSE n)

\* ', '.join(...) over TLA+ strings
RECURSIVE JoinStrings(_, _)
JoinStrings(sep, lst) ==
  IF lst = << >> THEN ""
  ELSE IF Len(lst) = 1 THEN lst[1]
  ELSE lst[1] \o sep \o JoinStrings(sep, Tail(lst))

\* generate_description; integrations is the set as list(integrations) enumerates it
generate_description(name, node_count, trigger_type, integrations) ==
  LET lead == CASE trigger_type = "Webhook"   -> "Webhook-triggered automation that"
                [] trigger_type = "Scheduled" -> "Scheduled automation that"
                [] trigger_type = "Complex"   -> "Complex multi-step automation that"
                [] OTHER                      -> "Manual workflow that"
      main_services == FirstN(integrations, 3)
      services ==
        IF integrations = << >> THEN ""
        ELSE IF Len(main_services) = 1 THEN " integrates with " \o main_services[1]
        ELSE IF Len(main_services) = 2
        THEN " connects " \o main_services[1] \o " and " \o main_services[2]
        ELSE " orchestrates "
               \o JoinStrings(", ", SubSeq(main_services, 1, Len(main_services) - 1))
               \o ", and " \o main_services[Len(main_services)]
      name_lower == str_lower(name)
      purpose ==
        IF str_in(Chars("create"), name_lower) THEN " to create new records"
        ELSE IF str_in(Chars("update"), name_lower) THEN " to update existing data"
        ELSE IF str_in(Chars("sync"), name_lower) THEN " to synchronize data"
        ELSE IF str_in(Chars("notification"), name_lower) \/ str_in(Chars("alert"), name_lower)
        THEN " for notifications and alerts"
        ELSE IF str_in(Chars("backup"), name_lower) THEN " for data backup operations"
        ELSE IF str_in(Chars("monitor"), name_lower) THEN " for monitoring and reporting"
        ELSE " for data processing"
      uses == ". Uses " \o IntStr(node_count) \o " nodes"
      many == IF Len(integrations) > 3
              THEN " and integrates with " \o IntStr(Len(integrations)) \o " services"
              ELSE ""
  IN  lead \o services \o purpose \o uses \o many \o "."

\* json.dumps of a list of strings
json_dumps(lst) ==
  LET quoted == [i \in 1..Len(lst) |-> "\"" \o lst[i] \o "\""]
  IN  "[" \o JoinStrings(", ", quoted) \o "]"

\* complexity_of with the bug of counting 5 nodes as medium and 15 as high
complexity_of_strict(node_count) ==
  IF node_count < 5 THEN "low"
  ELSE IF node_count < 15 THEN "medium"
  ELSE "high"

\* the complexity analyze_workflow_file derives from the number of nodes
complexity_of(node_count) ==
  IF node_count <= 5 THEN "low"
  ELSE IF node_count <= 15 THEN "medium"
  ELSE "high"

\* the text after line 157 of analyze_workflow_file: the record made from the parsed
\* document, the size and the hash read from the file, and the enumeration order
\* of the integrations set
workflow_of(filename, data, file_size, file_hash, order) ==
  LET json_name == str_strip(Chars(dict_get(data, "name", "")))
      name == IF /\ json_name # << >>
                 /\ json_name # str_replace(Chars(filename), Chars(".json"), << >>)
                 /\ ~str_startswith(json_name, Chars("My workflow"))
              THEN json_name
              ELSE format_workflow_name(filename)
      nodes == dict_get(data, "nodes", << >>)
      node_count == Len(nodes)
      complexity == complexity_of(node_count)
      trigger_type == analyze_nodes(nodes).trigger_type
      json_description == str_strip(Chars(dict_get(data, "description", "")))
  IN  [ filename     |-> filename,
        name         |-> Str(name),
        workflow_id  |-> dict_get(data, "id", ""),
        active       |-> dict_get(data, "active", FALSE),
        description  |-> IF json_description # << >> THEN Str(json_description)
                         ELSE generate_description(name, node_count, trigger_type, order),
        trigger_type |-> trigger_type,
        complexity   |-> complexity,
        node_count   |-> node_count,
        integrations |-> json_dumps(order),
        tags         |-> json_dumps(dict_get(data, "tags", << >>)),
        created_at   |-> dict_get(data, "createdAt", ""),
        updated_at   |-> dict_get(data, "updatedAt", ""),
        file_hash    |-> file_hash,
        file_size    |-> file_size ]

(***************************************************************************)
(* The corpus: the files under the workflows directory.                    *)
(***************************************************************************)
\* the *.json files rglob can find, each as <<directory, file name>>
Paths ==
  { << "Slack", "12_Slack_Alert.json" >>,
    << "Telegram", "12_Slack_Alert.json" >>,
    << "Http", "7_http_sync.json" >> }

\* os.path.basename
basename(path) == path[Len(path)]

\* the orders in which rglob may list the files: the order of the directory entries,
\* which the file system decides; the model takes one order and its reverse
PathOrders ==
  LET order == << << "Http", "7_http_sync.json" >>,
                  << "Slack", "12_Slack_Alert.json" >>,
                  << "Telegram", "12_Slack_Alert.json" >> >>
  IN  { order, [i \in 1..Len(order) |-> order[Len(order) + 1 - i]] }

\* the contents a file can have: its text
WebhookSlackJson ==
  "{\"nodes\":[{\"type\":\"n8n-nodes-base.webhook\",\"name\":\"Webhook\"},{\"type\":\"n8n-nodes-base.slack\",\"name\":\"Slack\"}]}"

DailySyncJson ==
  "{\"name\":\"Daily Sync\",\"active\":true,\"nodes\":[{\"type\":\"n8n-nodes-base.cron\",\"name\":\"Cron\"}]}"

TruncatedJson == "{\"nodes\":["

ListJson == "[]"

SlackJson ==
  "{\"nodes\":[{\"type\":\"n8n-nodes-base.slack\",\"name\":\"Slack\"}]}"

Bytes == { SlackJson, WebhookSlackJson, DailySyncJson, TruncatedJson, ListJson }

YouTubeJson ==
  "{\"active\":true,\"nodes\":[{\"type\":\"n8n-nodes-base.youTube\",\"name\":\"Get video\"}]}"

MediumJson ==
  "{\"nodes\":[{\"type\":\"n8n-nodes-base.set\",\"name\":\"Set\"},{\"type\":\"n8n-nodes-base.set\",\"name\":\"Set\"},{\"type\":\"n8n-nodes-base.set\",\"name\":\"Set\"},{\"type\":\"n8n-nodes-base.set\",\"name\":\"Set\"},{\"type\":\"n8n-nodes-base.set\",\"name\":\"Set\"},{\"type\":\"n8n-nodes-base.set\",\"name\":\"Set\"}]}"

\* a path with no file behind it
NoFile == "<no file>"

\* what json.load makes of a text: a dict, a list, or JSONDecodeError
JSONDecodeError == [type |-> "JSONDecodeError"]

json_load(bytes) ==
  CASE bytes = WebhookSlackJson ->
         [type |-> "dict",
          value |-> [nodes |-> << [type |-> "n8n-nodes-base.webhook", name |-> "Webhook"],
                                  [type |-> "n8n-nodes-base.slack", name |-> "Slack"] >>]]
    [] bytes = SlackJson ->
         [type |-> "dict",
          value |-> [nodes |-> << [type |-> "n8n-nodes-base.slack", name |-> "Slack"] >>]]
    [] bytes = DailySyncJson ->
         [type |-> "dict",
          value |-> [name |-> "Daily Sync", active |-> TRUE,
                     nodes |-> << [type |-> "n8n-nodes-base.cron", name |-> "Cron"] >>]]
    [] bytes = YouTubeJson ->
         [type |-> "dict",
          value |-> [active |-> TRUE,
                     nodes |-> << [type |-> "n8n-nodes-base.youTube", name |-> "Get video"] >>]]
    [] bytes = MediumJson ->
         [type |-> "dict",
          value |-> [nodes |-> [i \in 1..6 |-> [type |-> "n8n-nodes-base.set", name |-> "Set"]]]]
    [] bytes = ListJson -> [type |-> "list", value |-> << >>]
    [] OTHER -> JSONDecodeError

\* hashlib.md5(bytes).hexdigest()
md5_hexdigest(bytes) ==
  CASE bytes = SlackJson        -> "7d4c3e0a68dda3f180301109c7f8d525"
    [] bytes = WebhookSlackJson -> "9327cdee497faf3e644be2f09080ce52"
    [] bytes = DailySyncJson    -> "aff562fe25805c2dd4e828c93a38ce62"
    [] bytes = TruncatedJson    -> "21e80d6db0940690f83d818d9fe66efb"
    [] bytes = ListJson         -> "d751713988987e9331980363e24189ce"
    [] bytes = YouTubeJson      -> "269b1fdc35c757e965f08e2d44478c5f"
    [] bytes = MediumJson       -> "bb3f344f64ce6f17da10ccdc1cc2cd00"

\* os.path.getsize: the number of bytes of the text
getsize(bytes) == Len(bytes)

(***************************************************************************)
(* Bounds of the model.                                                    *)
(***************************************************************************)
\* index_all_workflows is called at most MaxRuns times
MaxRuns == 2

\* the corpus is edited at most MaxEdits times
MaxEdits == 1

\* the store fails at most MaxFaults times
MaxFaults == 1

\* CURRENT_TIMESTAMP advances at most MaxClock times
MaxClock == 1

\* the documents given to analyze_nodes have at most MaxNodes nodes
MaxNodes == 12

\* the searches ask for pages of at most MaxLimit rows, or of the default size
MaxLimit == 2

\* the searches ask for pages that start at most MaxOffset rows in
MaxOffset == 1

\* the lists given to analyze_nodes to classify the trigger have at most MaxSignals nodes
MaxSignals == 3

\* /api/reindex starts at most MaxTasks background tasks
MaxTasks == 2

\* /api/reindex is requested at most MaxRequests times
MaxRequests == 3

(***************************************************************************)
(* The state.                                                              *)
(***************************************************************************)
VARIABLES
  disk,            \* the corpus: the text of each path, or NoFile
  workflows,       \* table workflows as committed: what every reader sees
  workflows_fts,   \* the FTS5 index workflows_fts as committed
  sqlite_sequence, \* the last AUTOINCREMENT id given out, as committed
  conn,            \* the store as the run's connection sees it, its own writes included
  pc,              \* where index_all_workflows stands
  force_reindex,   \* the argument of the run
  json_files,      \* the files of the run not yet visited
  file_path,       \* the file being analyzed
  data,            \* json.load's result for it
  file_size,       \* os.path.getsize's result for it
  stats,           \* the counts of the run
  now,             \* CURRENT_TIMESTAMP
  runs,            \* calls of index_all_workflows so far
  edits,           \* edits of the corpus so far
  faults,          \* failures of the store so far
  n_files,         \* history: how many files the run enumerated
  snap,            \* history: table workflows when the run started
  clean,           \* history: no edit of the corpus since the run started
  faulted,         \* history: the store failed during the run
  prev_ok,         \* history: the run before this one was not forced, completed
                   \*          without a store failure, and no edit happened since it started
  tasks,           \* api_server: the background tasks run_indexing, one record each
  ADMIN_TOKEN,     \* api_server: the environment variable ADMIN_TOKEN
  rate_limit_storage, \* api_server: the requests of the client in the last minute
  response,        \* api_server: the status code of the last answer of /api/reindex
  call,            \* the last call of the Query Engine, with its arguments
  reply,           \* what that call returned, or that it raised
  nodes,           \* the node list analyze_nodes is called with
  analysis,        \* what analyze_nodes returned for it
  document,        \* the file analyze_workflow_file is called with: its name and content
  workflow_data    \* the record analyze_workflow_file returned for it last

vars ==
  << disk, workflows, workflows_fts, sqlite_sequence, conn, pc, force_reindex,
     json_files, file_path, data, file_size, stats, now, runs, edits, faults,
     n_files, snap, clean, faulted, prev_ok,
     tasks, ADMIN_TOKEN, rate_limit_storage, response, call, reply, nodes, analysis,
     document, workflow_data >>

run_vars == << force_reindex, json_files, file_path, data, file_size >>

hist_vars == << n_files, snap, clean, faulted, prev_ok >>

committed_vars == << workflows, workflows_fts, sqlite_sequence >>

env_vars == << disk, now, runs, edits >>

\* the state of one stepwise run of index_all_workflows
index_vars ==
  << conn, pc, force_reindex, json_files, file_path, data, file_size, stats, runs,
     edits, faults, n_files, snap, clean, faulted, prev_ok >>

api_vars == << tasks, ADMIN_TOKEN, rate_limit_storage, response >>

query_vars == << call, reply >>

analyzer_vars == << nodes, analysis, document, workflow_data >>

(***************************************************************************)
(* The Catalog Store: table workflows, the index workflows_fts and the     *)
(* triggers of init_database.                                              *)
(***************************************************************************)
\* PRAGMA recursive_triggers: init_database does not set it, so it has SQLite's default
recursive_triggers == FALSE

\* the columns of a row that workflows_fts indexes
fts_entry(row) ==
  [ rowid        |-> row.id,
    filename     |-> row.filename,
    name         |-> row.name,
    description  |-> row.description,
    integrations |-> row.integrations,
    tags         |-> row.tags ]

\* trigger workflows_ai: AFTER INSERT
workflows_ai(fts, new) == fts \cup { fts_entry(new) }

\* trigger workflows_ad: AFTER DELETE
workflows_ad(fts, old) == fts \ { fts_entry(old) }

\* the store as a connection sees the committed state
committed_store ==
  [ workflows |-> workflows, workflows_fts |-> workflows_fts,
    sqlite_sequence |-> sqlite_sequence ]

\* SELECT file_hash FROM workflows WHERE filename = ?
select_by_filename(db, filename) == { r \in db.workflows : r.filename = filename }

\* insert_or_replace with the bug of giving the new row the id of the row it replaces
insert_or_replace_keeps_id(db, workflow, timestamp) ==
  LET old  == select_by_filename(db, workflow.filename)
      id   == IF old # {} THEN (CHOOSE r \in old : TRUE).id ELSE db.sqlite_sequence + 1
      new  == workflow @@ [id |-> id, analyzed_at |-> timestamp]
      kept == IF recursive_triggers /\ old # {}
              THEN workflows_ad(db.workflows_fts, CHOOSE r \in old : TRUE)
              ELSE db.workflows_fts
  IN  [ workflows       |-> (db.workflows \ old) \cup { new },
        workflows_fts   |-> workflows_ai(kept, new),
        sqlite_sequence |-> IF old # {} THEN db.sqlite_sequence ELSE id ]

\* INSERT OR REPLACE INTO workflows (...) VALUES (..., CURRENT_TIMESTAMP): the rows
\* that hold the same filename are deleted to make room, which fires workflows_ad only
\* under recursive_triggers; the new row gets the next AUTOINCREMENT id and fires
\* workflows_ai
insert_or_replace(db, workflow, timestamp) ==
  LET old  == select_by_filename(db, workflow.filename)
      id   == db.sqlite_sequence + 1
      new  == workflow @@ [id |-> id, analyzed_at |-> timestamp]
      kept == IF recursive_triggers /\ old # {}
              THEN workflows_ad(db.workflows_fts, CHOOSE r \in old : TRUE)
              ELSE db.workflows_fts
  IN  [ workflows       |-> (db.workflows \ old) \cup { new },
        workflows_fts   |-> workflows_ai(kept, new),
        sqlite_sequence |-> id ]

(***************************************************************************)
(* The Indexing Pipeline: index_all_workflows, one step per access to a    *)
(* file, so that edits of the corpus fall between its reads.               *)
(***************************************************************************)
no_stats == [processed |-> 0, skipped |-> 0, errors |-> 0]

\* the background tasks /api/reindex can have started
TaskIds == 1..MaxTasks

\* a connection with no transaction open
NoTxn == [open |-> FALSE]

\* a task that was not added yet
no_task ==
  [pc |-> "none", force |-> FALSE, json_files |-> << >>, txn |-> NoTxn, stats |-> no_stats]

\* no call of the Query Engine yet
no_call == [op |-> "none"]

no_reply == [results |-> << >>, total |-> 0, raised |-> FALSE, connected |-> FALSE]

\* the server, the Query Engine and the analyzer at rest
api_idle ==
  /\ tasks = [t \in TaskIds |-> no_task]
  /\ ADMIN_TOKEN = None
  /\ rate_limit_storage = 0
  /\ response = 0

query_idle ==
  /\ call = no_call
  /\ reply = no_reply

\* analyze_nodes was not called yet
no_analysis == [trigger_type |-> None, integrations |-> {}]

\* analyze_workflow_file was not called yet
no_document == [filename |-> None]

no_workflow == [filename |-> None]

analyzer_idle ==
  /\ nodes = << >>
  /\ analysis = no_analysis
  /\ document = no_document
  /\ workflow_data = no_workflow

Init ==
  /\ disk \in [Paths -> {SlackJson, NoFile}]
  /\ workflows = {}
  /\ workflows_fts = {}
  /\ sqlite_sequence = 0
  /\ conn = [workflows |-> {}, workflows_fts |-> {}, sqlite_sequence |-> 0]
  /\ pc = "idle"
  /\ force_reindex = FALSE
  /\ json_files = << >>
  /\ file_path = << >>
  /\ data = JSONDecodeError
  /\ file_size = 0
  /\ stats = no_stats
  /\ now = 0
  /\ runs = 0
  /\ edits = 0
  /\ faults = 0
  /\ n_files = 0
  /\ snap = {}
  /\ clean = TRUE
  /\ faulted = FALSE
  /\ prev_ok = FALSE
  /\ api_idle
  /\ query_idle
  /\ analyzer_idle

\* unchanged with the bug of looking for a row only, whatever hash it stores
unchanged_any_row(rows, current_hash) == rows # {}

\* the change detector of the loop: the row found for the file name carries the hash
\* the file has now
unchanged(rows, current_hash) == \E row \in rows : row.file_hash = current_hash

\* the file goes to analyze_workflow_file
needs_reanalysis(force, rows, current_hash) == force \/ ~unchanged(rows, current_hash)

\* except_Exception with the bug of raising again instead of going on
except_Exception_reraise ==
  /\ stats' = stats
  /\ pc' = "raised"
  /\ UNCHANGED conn

\* except Exception: the file is counted as an error and the loop goes on
except_Exception ==
  /\ stats' = [stats EXCEPT !.errors = @ + 1]
  /\ pc' = "loop"
  /\ UNCHANGED conn

\* analysis_failed with the bug of counting the file in no counter
analysis_failed_uncounted ==
  /\ stats' = stats
  /\ pc' = "loop"
  /\ UNCHANGED conn

\* analysis_failed with the bug of dropping the row of the file that no longer parses
analysis_failed_drops_row ==
  /\ stats' = [stats EXCEPT !.errors = @ + 1]
  /\ pc' = "loop"
  /\ conn' = [conn EXCEPT !.workflows =
                 { r \in @ : r.filename # basename(file_path) }]

\* analyze_workflow_file returned None: the same count, and the loop goes on
analysis_failed ==
  /\ stats' = [stats EXCEPT !.errors = @ + 1]
  /\ pc' = "loop"
  /\ UNCHANGED conn

\* the call of index_all_workflows up to the loop
StartRun(force) ==
  /\ UNCHANGED << api_vars, query_vars, analyzer_vars >>
  /\ pc \in {"idle", "done", "raised"}
  /\ runs < MaxRuns
  /\ runs' = runs + 1
  /\ force_reindex' = force
  /\ \E order \in PathOrders :
       LET exists(path) == disk[path] # NoFile
           files == SelectSeq(order, exists)
       IN  /\ json_files' = files
           /\ n_files' = Len(files)
           /\ pc' = IF files = << >> THEN "done" ELSE "loop"
  /\ stats' = no_stats
  /\ conn' = committed_store
  /\ file_path' = << >>
  /\ data' = JSONDecodeError
  /\ file_size' = 0
  /\ snap' = workflows
  /\ clean' = TRUE
  /\ faulted' = FALSE
  /\ prev_ok' = (pc = "done" /\ ~force_reindex /\ clean /\ ~faulted)
  /\ UNCHANGED << disk, now, edits, faults, committed_vars >>

\* the head of the loop body for one file: the hash of the file and the row of its
\* file name decide between skipping the file and analyzing it
CheckFile ==
  /\ UNCHANGED << api_vars, query_vars, analyzer_vars >>
  /\ pc = "loop"
  /\ json_files # << >>
  /\ json_files' = Tail(json_files)
  /\ LET path == Head(json_files) IN
     IF ~force_reindex /\ disk[path] = NoFile
     THEN except_Exception /\ UNCHANGED file_path
     ELSE IF needs_reanalysis(force_reindex,
                              select_by_filename(conn, basename(path)),
                              md5_hexdigest(disk[path]))
     THEN pc' = "analyze" /\ file_path' = path /\ UNCHANGED << stats, conn >>
     ELSE /\ stats' = [stats EXCEPT !.skipped = @ + 1]
          /\ UNCHANGED << pc, file_path, conn >>
  /\ UNCHANGED << force_reindex, data, file_size, env_vars, faults, committed_vars, hist_vars >>

\* the SELECT of the loop body fails: the store cannot be read
SelectFails ==
  /\ UNCHANGED << api_vars, query_vars, analyzer_vars >>
  /\ pc = "loop"
  /\ json_files # << >>
  /\ ~force_reindex
  /\ disk[Head(json_files)] # NoFile
  /\ faults < MaxFaults
  /\ faults' = faults + 1
  /\ faulted' = TRUE
  /\ json_files' = Tail(json_files)
  /\ except_Exception
  /\ UNCHANGED << force_reindex, file_path, data, file_size, env_vars, committed_vars,
                  n_files, snap, clean, prev_ok >>

\* analyze_workflow_file, lines 152-157: open the file and json.load it
LoadFile ==
  /\ UNCHANGED << api_vars, query_vars, analyzer_vars >>
  /\ pc = "analyze"
  /\ IF disk[file_path] = NoFile
     THEN except_Exception /\ UNCHANGED data
     ELSE IF json_load(disk[file_path]) = JSONDecodeError
     THEN analysis_failed /\ UNCHANGED data
     ELSE /\ data' = json_load(disk[file_path])
          /\ pc' = "getsize"
          /\ UNCHANGED << stats, conn >>
  /\ UNCHANGED << force_reindex, json_files, file_path, file_size, env_vars, faults,
                  committed_vars, hist_vars >>

\* analyze_workflow_file, line 160: os.path.getsize
GetSize ==
  /\ UNCHANGED << api_vars, query_vars, analyzer_vars >>
  /\ pc = "getsize"
  /\ IF disk[file_path] = NoFile
     THEN except_Exception /\ UNCHANGED file_size
     ELSE /\ file_size' = getsize(disk[file_path])
          /\ pc' = "gethash"
          /\ UNCHANGED << stats, conn >>
  /\ UNCHANGED << force_reindex, json_files, file_path, data, env_vars, faults,
                  committed_vars, hist_vars >>

\* HashAndUpsert with the bug of committing each INSERT OR REPLACE as it is made
HashAndUpsert_autocommits ==
  /\ UNCHANGED << api_vars, query_vars, analyzer_vars >>
  /\ pc = "gethash"
  /\ IF disk[file_path] = NoFile \/ data.type # "dict"
     THEN except_Exception /\ UNCHANGED committed_vars
     ELSE \E order \in SetOrders(analyze_nodes(dict_get(data.value, "nodes", << >>)).integrations) :
            /\ conn' = insert_or_replace(conn,
                          workflow_of(basename(file_path), data.value, file_size,
                                      md5_hexdigest(disk[file_path]), order),
                          now)
            /\ workflows' = conn'.workflows
            /\ workflows_fts' = conn'.workflows_fts
            /\ sqlite_sequence' = conn'.sqlite_sequence
            /\ stats' = [stats EXCEPT !.processed = @ + 1]
            /\ pc' = "loop"
  /\ UNCHANGED << run_vars, env_vars, faults, hist_vars >>

\* analyze_workflow_file from line 161 on (get_file_hash, then the record), and the
\* INSERT OR REPLACE of the loop body
HashAndUpsert ==
  /\ UNCHANGED << api_vars, query_vars, analyzer_vars >>
  /\ pc = "gethash"
  /\ IF disk[file_path] = NoFile \/ data.type # "dict"
     THEN except_Exception
     ELSE \E order \in SetOrders(analyze_nodes(dict_get(data.value, "nodes", << >>)).integrations) :
            /\ conn' = insert_or_replace(conn,
                          workflow_of(basename(file_path), data.value, file_size,
                                      md5_hexdigest(disk[file_path]), order),
                          now)
            /\ stats' = [stats EXCEPT !.processed = @ + 1]
            /\ pc' = "loop"
  /\ UNCHANGED << run_vars, env_vars, faults, committed_vars, hist_vars >>

\* the INSERT OR REPLACE fails: the store cannot be written
UpsertFails ==
  /\ UNCHANGED << api_vars, query_vars, analyzer_vars >>
  /\ pc = "gethash"
  /\ disk[file_path] # NoFile
  /\ data.type = "dict"
  /\ faults < MaxFaults
  /\ faults' = faults + 1
  /\ faulted' = TRUE
  /\ except_Exception
  /\ UNCHANGED << run_vars, env_vars, committed_vars, n_files, snap, clean, prev_ok >>

\* Commit with the bug of pruning the rows whose file is no longer in the corpus
Commit_prunes ==
  /\ UNCHANGED << api_vars, query_vars, analyzer_vars >>
  /\ pc = "loop"
  /\ json_files = << >>
  /\ workflows' = { r \in conn.workflows :
                      \E p \in Paths : basename(p) = r.filename /\ disk[p] # NoFile }
  /\ workflows_fts' = conn.workflows_fts
  /\ sqlite_sequence' = conn.sqlite_sequence
  /\ pc' = "done"
  /\ UNCHANGED << conn, stats, run_vars, env_vars, faults, hist_vars >>

\* conn.commit() after the loop, and the return of the counts
Commit ==
  /\ UNCHANGED << api_vars, query_vars, analyzer_vars >>
  /\ pc = "loop"
  /\ json_files = << >>
  /\ workflows' = conn.workflows
  /\ workflows_fts' = conn.workflows_fts
  /\ sqlite_sequence' = conn.sqlite_sequence
  /\ pc' = "done"
  /\ UNCHANGED << conn, stats, run_vars, env_vars, faults, hist_vars >>

\* conn.commit() fails: the exception leaves index_all_workflows and the
\* transaction is rolled back with the connection
CommitFails ==
  /\ UNCHANGED << api_vars, query_vars, analyzer_vars >>
  /\ pc = "loop"
  /\ json_files = << >>
  /\ stats.processed > 0
  /\ faults < MaxFaults
  /\ faults' = faults + 1
  /\ faulted' = TRUE
  /\ conn' = committed_store
  /\ pc' = "raised"
  /\ UNCHANGED << stats, run_vars, env_vars, committed_vars, n_files, snap, clean, prev_ok >>

\* a person or a tool writes, replaces or removes a file of the corpus.  The run
\* reads a file only while it works on it, so an edit of another file during the run
\* acts like the same edit before the run (the file is not yet visited) or after it
\* (the file is done); only these moments are modelled: between two runs any file,
\* during a run the file it is working on.
Edit(path, bytes) ==
  /\ UNCHANGED << api_vars, query_vars, analyzer_vars >>
  /\ edits < MaxEdits
  /\ \/ pc \in {"idle", "done", "raised"}
     \/ pc \in {"analyze", "getsize", "gethash"} /\ path = file_path
  /\ bytes # disk[path]
  /\ disk' = [disk EXCEPT ![path] = bytes]
  /\ edits' = edits + 1
  /\ clean' = FALSE
  /\ UNCHANGED << now, runs, faults, conn, pc, stats, run_vars, committed_vars,
                  n_files, snap, faulted, prev_ok >>

\* a second passes.  The time is read by the INSERT alone; a run is taken to last
\* less than the second CURRENT_TIMESTAMP resolves, so time passes between runs.
Tick ==
  /\ UNCHANGED << api_vars, query_vars, analyzer_vars >>
  /\ pc \in {"idle", "done", "raised"}
  /\ now < MaxClock
  /\ now' = now + 1
  /\ UNCHANGED << disk, runs, edits, faults, conn, pc, stats, run_vars, committed_vars,
                  hist_vars >>

Next ==
  \/ \E force \in BOOLEAN : StartRun(force)
  \/ CheckFile
  \/ SelectFails
  \/ LoadFile
  \/ GetSize
  \/ HashAndUpsert
  \/ UpsertFails
  \/ Commit
  \/ CommitFails
  \/ \E path \in Paths, bytes \in Bytes \cup {NoFile} : Edit(path, bytes)
  \/ Tick

Spec == Init /\ [][Next]_vars

\* one stepwise run at rest: the values Init gives its variables
index_idle ==
  /\ conn = [workflows |-> {}, workflows_fts |-> {}, sqlite_sequence |-> 0]
  /\ pc = "idle"
  /\ force_reindex = FALSE
  /\ json_files = << >>
  /\ file_path = << >>
  /\ data = JSONDecodeError
  /\ file_size = 0
  /\ stats = no_stats
  /\ runs = 0
  /\ edits = 0
  /\ faults = 0
  /\ n_files = 0
  /\ snap = {}
  /\ clean = TRUE
  /\ faulted = FALSE
  /\ prev_ok = FALSE

(***************************************************************************)
(* api_server: POST /api/reindex and the background tasks it adds.  Each    *)
(* task runs index_all_workflows in a thread of the pool, with a connection *)
(* of its own; SQLite lets one connection write at a time.                  *)
(***************************************************************************)
\* check_rate_limit: the requests a client may make in a minute
MAX_REQUESTS_PER_MINUTE == 60

\* the admin_token a request can carry
Tokens == { None, "secret", "guess" }

\* the tasks between the start of index_all_workflows and its return
in_flight == { t \in TaskIds : tasks[t].pc = "loop" }

\* the tasks whose connection holds SQLite's write lock: a transaction is open from
\* the first INSERT of the run to its commit
write_lock == { t \in TaskIds : tasks[t].txn.open }

\* the store as the connection of task t reads it
task_store(t) == IF tasks[t].txn.open THEN tasks[t].txn.db ELSE committed_store

\* the handler of POST /api/reindex: rate limit, token check, then add_task
reindex_workflows(force, admin_token) ==
  /\ rate_limit_storage < MaxRequests
  /\ IF rate_limit_storage >= MAX_REQUESTS_PER_MINUTE
     THEN response' = 429 /\ UNCHANGED << rate_limit_storage, tasks >>
     ELSE /\ rate_limit_storage' = rate_limit_storage + 1
          /\ IF ADMIN_TOKEN = None
             THEN response' = 503 /\ UNCHANGED tasks
             ELSE IF admin_token # ADMIN_TOKEN
             THEN response' = 401 /\ UNCHANGED tasks
             ELSE /\ \E t \in TaskIds :
                       /\ tasks[t].pc = "none"
                       /\ \A u \in 1..(t - 1) : tasks[u].pc # "none"
                       /\ tasks' = [tasks EXCEPT ![t] =
                                      [no_task EXCEPT !.pc = "queued", !.force = force]]
                  /\ response' = 200
  /\ UNCHANGED << ADMIN_TOKEN, disk, now, committed_vars, index_vars, query_vars,
                  analyzer_vars >>

\* run_indexing: the task starts and index_all_workflows lists the files
run_indexing(t) ==
  /\ tasks[t].pc = "queued"
  /\ \E order \in PathOrders :
       LET exists(path) == disk[path] # NoFile
           files == SelectSeq(order, exists)
       IN  tasks' = [tasks EXCEPT ![t].json_files = files,
                                  ![t].stats = no_stats,
                                  ![t].pc = IF files = << >> THEN "done" ELSE "loop"]
  /\ UNCHANGED << ADMIN_TOKEN, rate_limit_storage, response, disk, now, committed_vars,
                  index_vars, query_vars, analyzer_vars >>

\* the file the task is at goes to INSERT OR REPLACE: it is analyzed and well-formed
upsert_due(t) ==
  /\ tasks[t].pc = "loop"
  /\ tasks[t].json_files # << >>
  /\ LET path == Head(tasks[t].json_files)
     IN  /\ needs_reanalysis(tasks[t].force,
                             select_by_filename(task_store(t), basename(path)),
                             md5_hexdigest(disk[path]))
         /\ json_load(disk[path]).type = "dict"

\* one pass of the loop body of the task's run.  The INSERT waits while another
\* connection holds the write lock.
index_file(t) ==
  /\ tasks[t].pc = "loop"
  /\ tasks[t].json_files # << >>
  /\ LET path == Head(tasks[t].json_files)
         db   == task_store(t)
         rest == [tasks[t] EXCEPT !.json_files = Tail(@)]
     IN  IF ~needs_reanalysis(tasks[t].force,
                              select_by_filename(db, basename(path)),
                              md5_hexdigest(disk[path]))
         THEN tasks' = [tasks EXCEPT ![t] = [rest EXCEPT !.stats.skipped = @ + 1]]
         ELSE IF json_load(disk[path]).type # "dict"
         THEN tasks' = [tasks EXCEPT ![t] = [rest EXCEPT !.stats.errors = @ + 1]]
         ELSE /\ write_lock \subseteq {t}
              /\ \E order \in SetOrders(analyze_nodes(
                                  dict_get(json_load(disk[path]).value, "nodes", << >>)).integrations) :
                   tasks' = [tasks EXCEPT ![t] =
                     [rest EXCEPT
                        !.stats.processed = @ + 1,
                        !.txn = [open |-> TRUE,
                                 db |-> insert_or_replace(db,
                                          workflow_of(basename(path), json_load(disk[path]).value,
                                                      getsize(disk[path]),
                                                      md5_hexdigest(disk[path]), order),
                                          now)]]]
  /\ UNCHANGED << ADMIN_TOKEN, rate_limit_storage, response, disk, now, committed_vars,
                  index_vars, query_vars, analyzer_vars >>

\* the INSERT gives up waiting for the write lock another task holds:
\* sqlite3.OperationalError (database is locked), which except Exception counts
database_is_locked(t) ==
  /\ upsert_due(t)
  /\ ~(write_lock \subseteq {t})
  /\ tasks' = [tasks EXCEPT ![t].json_files = Tail(@), ![t].stats.errors = @ + 1]
  /\ UNCHANGED << ADMIN_TOKEN, rate_limit_storage, response, disk, now, committed_vars,
                  index_vars, query_vars, analyzer_vars >>

\* conn.commit() of the task's run and its return
commit_task(t) ==
  /\ tasks[t].pc = "loop"
  /\ tasks[t].json_files = << >>
  /\ IF tasks[t].txn.open
     THEN /\ workflows' = tasks[t].txn.db.workflows
          /\ workflows_fts' = tasks[t].txn.db.workflows_fts
          /\ sqlite_sequence' = tasks[t].txn.db.sqlite_sequence
     ELSE UNCHANGED committed_vars
  /\ tasks' = [tasks EXCEPT ![t].txn = NoTxn, ![t].pc = "done"]
  /\ UNCHANGED << ADMIN_TOKEN, rate_limit_storage, response, disk, now, index_vars,
                  query_vars, analyzer_vars >>

InitReindex ==
  /\ disk \in [Paths -> {SlackJson, ListJson, NoFile}]
  /\ workflows = {}
  /\ workflows_fts = {}
  /\ sqlite_sequence = 0
  /\ now = 0
  /\ index_idle
  /\ tasks = [t \in TaskIds |-> no_task]
  /\ ADMIN_TOKEN \in { None, "secret" }
  /\ rate_limit_storage = 0
  /\ response = 0
  /\ query_idle
  /\ analyzer_idle

NextReindex ==
  \/ \E force \in BOOLEAN, admin_token \in Tokens : reindex_workflows(force, admin_token)
  \/ \E t \in TaskIds : run_indexing(t)
  \/ \E t \in TaskIds : index_file(t)
  \/ \E t \in TaskIds : database_is_locked(t)
  \/ \E t \in TaskIds : commit_task(t)

SpecReindex == InitReindex /\ [][NextReindex]_vars

(***************************************************************************)
(* The analyzer on its own: analyze_nodes applied to node lists.            *)
(***************************************************************************)
\* the node types of the kinds analyze_nodes excludes: the keys service_mappings
\* maps to None, as n8n writes the type of such a node
UtilityTypes ==
  { "n8n-nodes-base." \o service_mappings[i][1] :
      i \in { j \in 1..Len(service_mappings) : service_mappings[j][2] = None } }

\* a utility node with no name, and one whose name mentions a service
UtilityNodes ==
  { [type |-> t] : t \in UtilityTypes }
    \cup { [type |-> t, name |-> "Check Slack status"] : t \in UtilityTypes }

UtilityLists ==
  { << n >> : n \in UtilityNodes }
    \cup { << [type |-> "n8n-nodes-base.if"], [type |-> "n8n-nodes-base.merge"],
              [type |-> "n8n-nodes-base.code"] >> }

\* nodes of five services
ServiceNodes ==
  << [type |-> "n8n-nodes-base.slack", name |-> "Slack"],
     [type |-> "n8n-nodes-base.telegram", name |-> "Telegram"],
     [type |-> "n8n-nodes-base.gmail", name |-> "Gmail"],
     [type |-> "n8n-nodes-base.github", name |-> "GitHub"],
     [type |-> "n8n-nodes-base.airtable", name |-> "Airtable"] >>

\* the node that starts the workflow, if the list has one
TriggerNodes ==
  { << >>,
    << [type |-> "n8n-nodes-base.webhook", name |-> "Webhook"] >>,
    << [type |-> "n8n-nodes-base.cron", name |-> "Cron"] >>,
    << [type |-> "n8n-nodes-base.manualTrigger", name |-> "Start"] >>,
    << [type |-> "n8n-nodes-base.slackTrigger", name |-> "Slack"] >> }

\* n nodes that stand for no integration
SetNodes(n) == [i \in 1..n |-> [type |-> "n8n-nodes-base.set", name |-> "Set"]]

\* lists of MaxNodes - 3 to MaxNodes nodes with two to five services, the trigger
\* node first or last
EscalationLists ==
  UNION { { trig \o SubSeq(ServiceNodes, 1, k) \o SetNodes(n - k - Len(trig)),
            SubSeq(ServiceNodes, 1, k) \o SetNodes(n - k - Len(trig)) \o trig } :
          << n, k, trig >> \in ((MaxNodes - 3)..MaxNodes) \X (2..Len(ServiceNodes)) \X TriggerNodes }

\* nodes with the signals the trigger classification looks at: webhook in the type,
\* webhook in the name only, cron in the type, schedule in the type, schedule in
\* the name only, webhook in the name of a node of a schedule type, a trigger type
\* of a service, the manual trigger, and a node with no signal
SignalNodes ==
  { [type |-> "n8n-nodes-base.webhook", name |-> "Webhook"],
    [type |-> "n8n-nodes-base.set", name |-> "Call webhook"],
    [type |-> "n8n-nodes-base.cron", name |-> "Cron"],
    [type |-> "n8n-nodes-base.scheduleTrigger", name |-> "Every day"],
    [type |-> "n8n-nodes-base.set", name |-> "Schedule cleanup"],
    [type |-> "n8n-nodes-base.scheduleTrigger", name |-> "Webhook poll"],
    [type |-> "n8n-nodes-base.slackTrigger", name |-> "Slack"],
    [type |-> "n8n-nodes-base.manualTrigger", name |-> "Start"],
    [type |-> "n8n-nodes-base.set", name |-> "Set"] }

\* the lists of one to MaxSignals of these nodes, in every order
SignalLists == UNION { [1..n -> SignalNodes] : n \in 1..MaxSignals }

\* a node whose type stands for one service and whose name mentions another, and a
\* node whose name alone mentions a service
PrecedenceLists ==
  { << [type |-> "n8n-nodes-base.slack", name |-> "Notify Telegram"] >>,
    << [type |-> "n8n-nodes-base.gmail", name |-> "Send Slack copy"] >>,
    << [type |-> "n8n-nodes-base.set", name |-> "Notify Telegram"] >> }

NodeLists == UtilityLists \cup EscalationLists \cup SignalLists \cup PrecedenceLists

\* the call analyze_nodes(nodes)
AnalyzeNodes ==
  /\ analysis = no_analysis
  /\ analysis' = analyze_nodes(nodes)
  /\ UNCHANGED << nodes, document, workflow_data, disk, now, committed_vars, index_vars,
                  api_vars, query_vars >>

InitAnalyze ==
  /\ nodes \in NodeLists
  /\ analysis = no_analysis
  /\ document = no_document
  /\ workflow_data = no_workflow
  /\ disk = [p \in Paths |-> NoFile]
  /\ workflows = {}
  /\ workflows_fts = {}
  /\ sqlite_sequence = 0
  /\ now = 0
  /\ index_idle
  /\ api_idle
  /\ query_idle

NextAnalyze == AnalyzeNodes

SpecAnalyze == InitAnalyze /\ [][NextAnalyze]_vars

(***************************************************************************)
(* analyze_workflow_file on its own: the record made of a parsed document.  *)
(***************************************************************************)
\* the names the files have
DocumentFileNames ==
  { "1234_Slack_NotifyOnError_Webhook.json", "123.json", "0042_my_api_call.json",
    "7_http_sync.json", "Backup_Monitor.json" }

\* filename.replace('.json', '')
bare_filename(filename) == Str(str_replace(Chars(filename), Chars(".json"), << >>))

\* the values of the key "name" of a document: none, empty, a placeholder, the bare
\* file name, a name of its own, and one with blanks around it
DeclaredNames(filename) ==
  { None, "", "My workflow 3", bare_filename(filename), "Daily Sync", "  Daily Sync " }

\* the values of the key "description": none, or a text
DeclaredDescriptions == { None, "Sends a report" }

\* the values of the key "nodes": lists of 0 to 16 nodes, with none to three services
DocumentNodes ==
  { SetNodes(n) : n \in {0, 5, 6, 15, 16} }
    \cup { << [type |-> "n8n-nodes-base.webhook", name |-> "Webhook"],
              [type |-> "n8n-nodes-base.slack", name |-> "Slack"] >>,
           << [type |-> "n8n-nodes-base.webhook"], [type |-> "n8n-nodes-base.slack"] >>,
           SubSeq(ServiceNodes, 1, 3) }

\* a dict with the key only when it has a value
optional(key, value) ==
  IF value = None THEN [k \in {} |-> None] ELSE [k \in {key} |-> value]

\* the files analyze_workflow_file is called with: the name, the parsed content, and
\* the size and the MD5 of the bytes
Documents ==
  { [ filename  |-> filename,
      data      |-> [nodes |-> ns] @@ optional("name", name)
                                   @@ optional("description", description),
      file_size |-> 110,
      file_hash |-> "3e22a107d5c6c4c2ac19e025a6277d0a" ] :
      << filename, ns, description >> \in
          DocumentFileNames \X DocumentNodes \X DeclaredDescriptions,
      name \in UNION { DeclaredNames(f) : f \in DocumentFileNames } }

\* the call analyze_workflow_file(file_path) on a file that parses.  Each call may
\* be made in a process of its own: list(integrations) enumerates a set of str in
\* the order of the hashes, which Python draws anew for each process
\* (PYTHONHASHSEED), so every order of the set is possible
AnalyzeWorkflowFile ==
  /\ \E order \in SetOrders(analyze_nodes(dict_get(document.data, "nodes", << >>)).integrations) :
       workflow_data' = workflow_of(document.filename, document.data,
                                    document.file_size, document.file_hash, order)
  /\ UNCHANGED << document, nodes, analysis, disk, now, committed_vars, index_vars,
                  api_vars, query_vars >>

InitDocument ==
  /\ document \in Documents
  /\ workflow_data = no_workflow
  /\ nodes = << >>
  /\ analysis = no_analysis
  /\ disk = [p \in Paths |-> NoFile]
  /\ workflows = {}
  /\ workflows_fts = {}
  /\ sqlite_sequence = 0
  /\ now = 0
  /\ index_idle
  /\ api_idle
  /\ query_idle

NextDocument == AnalyzeWorkflowFile

SpecDocument == InitDocument /\ [][NextDocument]_vars

(***************************************************************************)
(* The Query Engine: search_workflows and search_by_category, over the     *)
(* committed store.                                                        *)
(***************************************************************************)
\* get_service_categories
service_categories ==
  [ messaging          |-> << "Telegram", "Discord", "Slack", "WhatsApp", "Mattermost",
                              "Microsoft Teams", "Rocket.Chat" >>,
    email              |-> << "Gmail", "Mailjet", "Email (IMAP)", "Email (SMTP)", "Outlook" >>,
    cloud_storage      |-> << "Google Drive", "Google Docs", "Google Sheets", "Dropbox",
                              "OneDrive", "Box" >>,
    database           |-> << "PostgreSQL", "MySQL", "MongoDB", "Redis", "Airtable", "Notion" >>,
    project_management |-> << "Jira", "GitHub", "GitLab", "Trello", "Asana", "Monday.com" >>,
    ai_ml              |-> << "OpenAI", "Anthropic", "Hugging Face", "CalcsLive" >>,
    social_media       |-> << "LinkedIn", "Twitter/X", "Facebook", "Instagram" >>,
    ecommerce          |-> << "Shopify", "Stripe", "PayPal" >>,
    analytics          |-> << "Google Analytics", "Mixpanel" >>,
    calendar_tasks     |-> << "Google Calendar", "Google Tasks", "Cal.com", "Calendly" >>,
    forms              |-> << "Typeform", "Google Forms", "Form Trigger" >>,
    development        |-> << "Webhook", "HTTP Request", "GraphQL", "Server-Sent Events",
                              "YouTube" >> ]

\* json.loads of the text json.dumps made of a list of strings (the strings of the
\* model hold no quote): the texts between the first and the second quote, the
\* third and the fourth, and so on
json_loads(text) ==
  LET cs == Chars(text)
      is_quote(i) == cs[i] = "\""
      quotes == SelectSeq([i \in 1..Len(cs) |-> i], is_quote)
  IN  [k \in 1..(Len(quotes) \div 2) |->
         Str(SubSeq(cs, quotes[2 * k - 1] + 1, quotes[2 * k] - 1))]

\* the dict search_workflows and search_by_category make of a row: the JSON columns
\* parsed
result_of(row) ==
  [row EXCEPT !.integrations = json_loads(row.integrations),
              !.tags = json_loads(row.tags)]

\* text LIKE '%literal%' in SQLite: the literal occurs in the text, ASCII letters
\* compared without regard to case (the literals of the model hold no % and no _)
like_contains(text, literal) == str_in(str_lower(literal), str_lower(text))

\* ORDER BY (workflow_db.py, lines 570-573 and 699): the rows in the order of a
\* sort; before is a strict total order on them
sorted_by(rows, before(_, _)) ==
  [i \in 1..Cardinality(rows) |->
     CHOOSE w \in rows : Cardinality({ v \in rows : before(v, w) }) = i - 1]

\* ORDER BY analyzed_at with the bug of the ascending order
analyzed_at_asc(v, w) ==
  \/ v.analyzed_at < w.analyzed_at
  \/ v.analyzed_at = w.analyzed_at /\ v.id < w.id

\* ORDER BY analyzed_at DESC: among rows of the same second SQLite keeps the order
\* of its scan of the table, which is by id
analyzed_at_desc(v, w) ==
  \/ v.analyzed_at > w.analyzed_at
  \/ v.analyzed_at = w.analyzed_at /\ v.id < w.id

\* LIMIT with the bug of an inclusive upper end: one row more than the limit
limit_offset_inclusive(rows, limit, offset) ==
  IF offset >= Len(rows) THEN << >>
  ELSE SubSeq(rows, offset + 1,
              IF offset + limit + 1 < Len(rows) THEN offset + limit + 1 ELSE Len(rows))

\* LIMIT limit OFFSET offset, for limit >= 1 and offset >= 0
limit_offset(rows, limit, offset) ==
  IF offset >= Len(rows) THEN << >>
  ELSE SubSeq(rows, offset + 1, IF offset + limit < Len(rows) THEN offset + limit ELSE Len(rows))

\* the characters of which the tokenizer of FTS5 (unicode61) makes tokens, among
\* those of ASCII: the letters and the digits
TokenChars ==
  { LowerLetters[i] : i \in 1..26 } \cup { UpperLetters[i] : i \in 1..26 }
    \cup { DigitChars[i] : i \in 1..10 }

\* the tokenizer of FTS5 on ASCII text: the runs of letters and digits, in lower case
unicode61(cs) ==
  LET first(i) == cs[i] \in TokenChars /\ (i = 1 \/ cs[i - 1] \notin TokenChars)
      last(i) == cs[i] \in TokenChars /\ (i = Len(cs) \/ cs[i + 1] \notin TokenChars)
      positions == [i \in 1..Len(cs) |-> i]
      firsts == SelectSeq(positions, first)
      lasts == SelectSeq(positions, last)
  IN  [k \in 1..Len(firsts) |-> str_lower(SubSeq(cs, firsts[k], lasts[k]))]

\* the tokens FTS5 has indexed for an entry: those of its five columns
fts5_tokens(entry) ==
  unicode61(Chars(entry.filename))
    \o unicode61(Chars(entry.name))
    \o unicode61(Chars(entry.description))
    \o unicode61(Chars(entry.integrations))
    \o unicode61(Chars(entry.tags))

\* how often a token occurs among the tokens of an entry
occurrences(tokens, term) ==
  Cardinality({ i \in 1..Len(tokens) : tokens[i] = term })

\* the FTS5 query a text is.  The texts of the model are of two kinds: one word of
\* letters and digits, which asks for that token, and a text with an open quote,
\* which FTS5 rejects (sqlite3.OperationalError: unterminated string)
fts5_query(query) ==
  LET cs == str_strip(Chars(query))
  IN  IF \A i \in 1..Len(cs) : IsAlpha(cs[i]) \/ str_isdigit(<< cs[i] >>)
      THEN [ok |-> TRUE, term |-> str_lower(cs)]
      ELSE [ok |-> FALSE]

\* the sum of the token counts of the entries of an index, tokens[e] being the
\* tokens of entry e
RECURSIVE total_tokens(_, _)
total_tokens(tokens, entries) ==
  IF entries = {} THEN 0
  ELSE LET e == CHOOSE x \in entries : TRUE
       IN  Len(tokens[e]) + total_tokens(tokens, entries \ {e})

\* ORDER BY rank: rank is -bm25 of FTS5 (k1 = 1.2, b = 0.75).  For one term the
\* inverse document frequency is the same for every row, so v ranks before w when
\*   f_v / (f_v + k1 (1 - b + b D_v / avgdl)) > f_w / (f_w + k1 (1 - b + b D_w / avgdl)),
\* f the occurrences of the term in the row, D the tokens of the row, avgdl the
\* tokens per entry of the index; that is f_v (T + 3 N D_w) > f_w (T + 3 N D_v)
\* for N entries with T tokens.  Rows of the same rank come in the order of their id.
rank_before(N, T, v, w) ==
  LET a == v.f * (T + 3 * N * w.D)
      b == w.f * (T + 3 * N * v.D)
  IN  a > b \/ (a = b /\ v.row.id < w.row.id)

\* the WHERE conditions with the bug of leaving out active_only
where_conditions_but_active(w, trigger_filter, complexity_filter, active_only) ==
  /\ trigger_filter # "all" => w.trigger_type = trigger_filter
  /\ complexity_filter # "all" => w.complexity = complexity_filter

\* the WHERE conditions of search_workflows
where_conditions(w, trigger_filter, complexity_filter, active_only) ==
  /\ active_only => w.active = TRUE
  /\ trigger_filter # "all" => w.trigger_type = trigger_filter
  /\ complexity_filter # "all" => w.complexity = complexity_filter

\* search_workflows: what it returns, or that it raised
search_workflows(db, query, trigger_filter, complexity_filter, active_only, limit, offset) ==
  IF str_strip(Chars(query)) # << >>
  THEN LET q == fts5_query(query)
       IN  IF ~q.ok
           THEN [results |-> << >>, total |-> 0, raised |-> TRUE, connected |-> TRUE]
           ELSE LET tokens == [e \in db.workflows_fts |-> fts5_tokens(e)]
                    N == Cardinality(db.workflows_fts)
                    T == total_tokens(tokens, db.workflows_fts)
                    joined == { [row |-> x[1],
                                 f   |-> occurrences(tokens[x[2]], q.term),
                                 D   |-> Len(tokens[x[2]])] :
                                  x \in { y \in db.workflows \X db.workflows_fts :
                                            y[2].rowid = y[1].id } }
                    rows == { j \in joined :
                                /\ j.f > 0
                                /\ where_conditions(j.row, trigger_filter, complexity_filter,
                                                    active_only) }
                    by_rank(v, w) == rank_before(N, T, v, w)
                    page == limit_offset(sorted_by(rows, by_rank), limit, offset)
                IN  [ results   |-> [i \in DOMAIN page |-> result_of(page[i].row)],
                      total     |-> Cardinality(rows),
                      raised    |-> FALSE,
                      connected |-> TRUE ]
  ELSE LET rows == { w \in db.workflows :
                       where_conditions(w, trigger_filter, complexity_filter, active_only) }
           page == limit_offset(sorted_by(rows, analyzed_at_desc), limit, offset)
       IN  [ results   |-> [i \in DOMAIN page |-> result_of(page[i])],
             total     |-> Cardinality(rows),
             raised    |-> FALSE,
             connected |-> TRUE ]

\* search_by_category with the bug of having no early return for an unknown
\* category: it goes to the store with an empty list of services
search_by_category_no_return(db, category, limit, offset) ==
  LET services == IF category \in DOMAIN service_categories
                  THEN service_categories[category] ELSE << >>
      hit(w) == \E i \in 1..Len(services) :
                  like_contains(Chars(w.integrations),
                                << "\"" >> \o Chars(services[i]) \o << "\"" >>)
      rows == { w \in db.workflows : hit(w) }
      page == limit_offset(sorted_by(rows, analyzed_at_desc), limit, offset)
  IN  [ results   |-> [i \in DOMAIN page |-> result_of(page[i])],
        total     |-> Cardinality(rows),
        raised    |-> FALSE,
        connected |-> TRUE ]

\* search_by_category
search_by_category(db, category, limit, offset) ==
  IF category \notin DOMAIN service_categories
  THEN [results |-> << >>, total |-> 0, raised |-> FALSE, connected |-> FALSE]
  ELSE LET services == service_categories[category]
           hit(w) == \E i \in 1..Len(services) :
                       like_contains(Chars(w.integrations),
                                     << "\"" >> \o Chars(services[i]) \o << "\"" >>)
           rows == { w \in db.workflows : hit(w) }
           page == limit_offset(sorted_by(rows, analyzed_at_desc), limit, offset)
       IN  [ results   |-> [i \in DOMAIN page |-> result_of(page[i])],
             total     |-> Cardinality(rows),
             raised    |-> FALSE,
             connected |-> TRUE ]

\* the corpus the queries are made over: four files with names of their own
QueryPaths ==
  { << "Slack", "12_Slack_Alert.json" >>,
    << "Http", "7_http_sync.json" >>,
    << "Reports", "3_daily_report.json" >>,
    << "Video", "5_video_backup.json" >> }

\* the orders in which rglob lists them: one order and its reverse
QueryPathOrders ==
  LET order == << << "Http", "7_http_sync.json" >>,
                  << "Reports", "3_daily_report.json" >>,
                  << "Slack", "12_Slack_Alert.json" >>,
                  << "Video", "5_video_backup.json" >> >>
  IN  { order, [i \in 1..Len(order) |-> order[Len(order) + 1 - i]] }

\* the edit made to the corpus: the text of a file is replaced, which gives the
\* catalog a second workflow with Slack, one that a webhook starts
QueryEdits ==
  { << << "Http", "7_http_sync.json" >>, WebhookSlackJson >> }

\* the start of a run of index_all_workflows over this corpus: StartRun with the
\* files of QueryPaths
StartQueryRun(force) ==
  /\ UNCHANGED << api_vars, query_vars, analyzer_vars >>
  /\ call = no_call
  /\ pc \in {"idle", "done"}
  /\ runs < MaxRuns
  /\ runs' = runs + 1
  /\ force_reindex' = force
  /\ \E order \in QueryPathOrders :
       LET exists(path) == disk[path] # NoFile
           files == SelectSeq(order, exists)
       IN  /\ json_files' = files
           /\ n_files' = Len(files)
           /\ pc' = IF files = << >> THEN "done" ELSE "loop"
  /\ stats' = no_stats
  /\ conn' = committed_store
  /\ file_path' = << >>
  /\ data' = JSONDecodeError
  /\ file_size' = 0
  /\ snap' = workflows
  /\ clean' = TRUE
  /\ faulted' = FALSE
  /\ prev_ok' = (pc = "done" /\ ~force_reindex /\ clean /\ ~faulted)
  /\ UNCHANGED << disk, now, edits, faults, committed_vars >>

\* the values of limit: small ones and the default
default_limit == 50

Limits == (1..MaxLimit) \cup { default_limit }

Offsets == 0..MaxOffset

\* the texts asked for: none, blank, two words, and an open quote
Queries == { "", " ", "Slack", "Daily", "\"" }

\* the filters asked for (trigger_filter, complexity_filter, active_only): none, one,
\* two and all three
Filters ==
  { << "all", "all", FALSE >>,
    << "Manual", "all", FALSE >>,
    << "all", "low", TRUE >>,
    << "Manual", "low", TRUE >> }

\* two of the categories, and a key that is none
Categories == { "messaging", "development", "webhooks" }

\* SearchWorkflows with the bug of dropping the index entries that belong to no row
SearchWorkflows_repairs(query, trigger_filter, complexity_filter, active_only, limit, offset) ==
  /\ call = no_call
  /\ pc \in {"idle", "done"}
  /\ call' = [op |-> "search_workflows", query |-> query,
              trigger_filter |-> trigger_filter, complexity_filter |-> complexity_filter,
              active_only |-> active_only, limit |-> limit, offset |-> offset]
  /\ reply' = search_workflows(committed_store, query, trigger_filter, complexity_filter,
                               active_only, limit, offset)
  /\ workflows_fts' = { e \in workflows_fts : \E w \in workflows : w.id = e.rowid }
  /\ UNCHANGED << workflows, sqlite_sequence, disk, now, index_vars, api_vars, analyzer_vars >>

\* a call of search_workflows.  A call made during a run of the indexer reads what
\* was committed before the run, so it is the call made before the run; the calls are
\* taken between the runs
SearchWorkflows(query, trigger_filter, complexity_filter, active_only, limit, offset) ==
  /\ call = no_call
  /\ pc \in {"idle", "done"}
  /\ call' = [op |-> "search_workflows", query |-> query,
              trigger_filter |-> trigger_filter, complexity_filter |-> complexity_filter,
              active_only |-> active_only, limit |-> limit, offset |-> offset]
  /\ reply' = search_workflows(committed_store, query, trigger_filter, complexity_filter,
                               active_only, limit, offset)
  /\ UNCHANGED << committed_vars, disk, now, index_vars, api_vars, analyzer_vars >>

\* a call of search_by_category
SearchByCategory(category, limit, offset) ==
  /\ call = no_call
  /\ pc \in {"idle", "done"}
  /\ call' = [op |-> "search_by_category", category |-> category,
              limit |-> limit, offset |-> offset]
  /\ reply' = search_by_category(committed_store, category, limit, offset)
  /\ UNCHANGED << committed_vars, disk, now, index_vars, api_vars, analyzer_vars >>

\* the caller has the answer; the next call can be made
Return ==
  /\ call # no_call
  /\ call' = no_call
  /\ reply' = no_reply
  /\ UNCHANGED << committed_vars, disk, now, index_vars, api_vars, analyzer_vars >>

InitQuery ==
  /\ disk = [p \in QueryPaths |->
              CASE p[1] = "Slack" -> SlackJson
                [] p[1] = "Http"  -> DailySyncJson
                [] p[1] = "Video" -> YouTubeJson
                [] OTHER          -> MediumJson]
  /\ workflows = {}
  /\ workflows_fts = {}
  /\ sqlite_sequence = 0
  /\ now = 0
  /\ index_idle
  /\ api_idle
  /\ query_idle
  /\ analyzer_idle

NextQuery ==
  \/ \E force \in BOOLEAN : StartQueryRun(force)
  \/ CheckFile
  \/ LoadFile
  \/ GetSize
  \/ HashAndUpsert
  \/ Commit
  \/ \E edit \in QueryEdits :
       call = no_call /\ pc \in {"idle", "done"} /\ Edit(edit[1], edit[2])
  \/ call = no_call /\ Tick
  \/ \E query \in Queries, filter \in Filters, limit \in Limits, offset \in Offsets :
       SearchWorkflows(query, filter[1], filter[2], filter[3], limit, offset)
  \/ \E category \in Categories, limit \in Limits, offset \in Offsets :
       SearchByCategory(category, limit, offset)
  \/ Return

SpecQuery == InitQuery /\ [][NextQuery]_vars

(***************************************************************************)
(* Vocabulary of the properties.                                           *)
(***************************************************************************)
\* the files of the corpus
Present == { p \in Paths : disk[p] # NoFile }

\* the texts analyze_workflow_file makes a record of
Analyzable == { b \in Bytes : json_load(b).type = "dict" }

\* the names files have
FileNames == { basename(p) : p \in Paths }

\* the records analyze_workflow_file can return for a file name and a text, one for
\* each order in which the integrations set can be listed
AnalysisTable ==
  [ f \in FileNames, b \in Analyzable |->
      { workflow_of(f, json_load(b).value, getsize(b), md5_hexdigest(b), order) :
          order \in SetOrders(analyze_nodes(dict_get(json_load(b).value, "nodes", << >>)).integrations) } ]

\* the columns of a row that analyze_workflow_file supplies
RowFields(row) == [ k \in (DOMAIN row) \ {"id", "analyzed_at"} |-> row[k] ]

\* every column of the row, the hash and the size included, comes from this text
RowIsOf(row, bytes) ==
  /\ bytes \in Analyzable
  /\ row.file_hash = md5_hexdigest(bytes)
  /\ RowFields(row) \in AnalysisTable[row.filename, bytes]

\* the rows stored under the name of a file
RowsOf(table, path) == { r \in table : r.filename = basename(path) }

\* a step of the run in which the analysis of the current file fails: the file is
\* gone, its text is no JSON, or the JSON is no object
AnalysisFails ==
  /\ disk' = disk
  /\ \/ pc = "analyze" /\ (\/ disk[file_path] = NoFile
                           \/ json_load(disk[file_path]) = JSONDecodeError)
     \/ pc = "getsize" /\ disk[file_path] = NoFile
     \/ pc = "gethash" /\ (disk[file_path] = NoFile \/ data.type # "dict")

(***************************************************************************)
(* C1 to C10.                                                              *)
(***************************************************************************)
\* C1: a run without force that follows a completed run without force, with no
\* edit of the corpus since the first of the two started and no store failure,
\* returns processed = 0 and leaves table workflows as it found it.
C1_Idempotent ==
  (pc = "done" /\ ~force_reindex /\ prev_ok /\ clean /\ ~faulted)
    => (stats.processed = 0 /\ workflows = snap)

\* C2: when the run without force starts with every file but one, p, carrying the
\* hash its row stores, and p (well-formed) carrying another hash than its row, the
\* run returns processed = 1, counts every other file as skipped, and leaves the
\* rows of the other file names as they were.
C2_ChangeDetection ==
  \A p \in Paths :
    ( /\ pc = "done" /\ ~force_reindex /\ clean /\ ~faulted
      /\ p \in Present /\ disk[p] \in Analyzable
      /\ \E r \in RowsOf(snap, p) : r.file_hash # md5_hexdigest(disk[p])
      /\ \A q \in Present \ {p} :
           \E r \in RowsOf(snap, q) : r.file_hash = md5_hexdigest(disk[q]) )
    => ( /\ stats.processed = 1
         /\ stats.skipped = n_files - 1
         /\ \A r \in snap : r.filename # basename(p) => r \in workflows )

\* C3: every row, committed or written by the run, has the file_hash of the very
\* text its other columns were computed from.
C3_Fingerprint ==
  \A r \in workflows \cup conn.workflows : \E b \in Bytes : RowIsOf(r, b)

\* C4: what a reader sees of the FTS index is one entry per row of table workflows,
\* with the row's current text, and nothing else.
C4_IndexMatchesTable ==
  workflows_fts = { fts_entry(r) : r \in workflows }

\* C5: after a run with no error and no edit, the files of the corpus have one row
\* each: two files never share a row.
C5_OneRowPerFile ==
  (pc = "done" /\ clean /\ ~faulted /\ stats.errors = 0)
    => \A p, q \in Present : p # q => RowsOf(workflows, p) \cap RowsOf(workflows, q) = {}

\* C6: a failing analysis adds one to errors and the loop goes on with the files
\* that remain; a run that returns has counted every file it listed, and a run
\* raises only when the store failed.
C6_Containment ==
  /\ [][AnalysisFails => /\ stats' = [stats EXCEPT !.errors = @ + 1]
                         /\ pc' = "loop"
                         /\ json_files' = json_files]_vars
  /\ [](pc = "done" => stats.processed + stats.skipped + stats.errors = n_files)
  /\ [](pc = "raised" => faulted)

\* a run returned after one file failed and the two others were visited
C6_Witness ==
  /\ pc = "done"
  /\ n_files = 3
  /\ stats.errors = 1
  /\ stats.processed + stats.skipped = 2
  /\ \E p \in Present : disk[p] \notin Analyzable

\* C7: once the store has failed during a run, the run is over and has raised.
C7_StoreFailureAborts ==
  faulted => pc = "raised"

\* C8: a failing analysis writes nothing: the store is the same after the step, for
\* the run and for every reader.
C8_NoPartialRecord ==
  [][AnalysisFails => /\ conn' = conn
                      /\ UNCHANGED committed_vars]_vars

\* a run returned with an error for a file that was indexed before and is truncated
\* now, and the row of that file is the one the run found
C8_Witness ==
  /\ pc = "done"
  /\ clean
  /\ stats.errors = 1
  /\ \E p \in Present :
       /\ json_load(disk[p]) = JSONDecodeError
       /\ RowsOf(snap, p) # {}
       /\ RowsOf(workflows, p) = RowsOf(snap, p)

\* a step of the run that decides on the next file, with the file's hash and the row
\* of its name both read
GateStep ==
  /\ pc = "loop"
  /\ json_files # << >>
  /\ json_files' = Tail(json_files)
  /\ faults' = faults
  /\ force_reindex \/ disk[Head(json_files)] # NoFile

\* C9: the file goes to the analyzer exactly when force is set, or no row of its
\* name stores the hash its text has now (no row, or another hash); otherwise it is
\* counted as skipped and nothing is written.  The analyzer is entered from the gate
\* only.
C9_Gate ==
  /\ [][GateStep =>
          LET path == Head(json_files)
              reanalyze ==
                \/ force_reindex
                \/ RowsOf(conn.workflows, path) = {}
                \/ \E r \in RowsOf(conn.workflows, path) :
                     r.file_hash # md5_hexdigest(disk[path])
          IN  /\ reanalyze <=> (pc' = "analyze" /\ file_path' = path)
              /\ ~reanalyze => /\ stats' = [stats EXCEPT !.skipped = @ + 1]
                               /\ pc' = "loop"
                               /\ conn' = conn /\ UNCHANGED committed_vars]_vars
  /\ [][pc' = "analyze" /\ pc # "analyze" => GateStep]_vars

\* a run without force returned after it skipped a file and analyzed another
C9_Witness ==
  /\ pc = "done"
  /\ ~force_reindex
  /\ stats.skipped >= 1
  /\ stats.processed >= 1

\* C10: after a complete run without force, with no edit since it started and no
\* store failure, every well-formed file has a row with its hash and with the
\* columns of its text.
C10_StaleResolved ==
  (pc = "done" /\ ~force_reindex /\ clean /\ ~faulted)
    => \A p \in Present :
         disk[p] \in Analyzable => \E r \in RowsOf(workflows, p) : RowIsOf(r, disk[p])

(***************************************************************************)
(* C11 to C20.                                                             *)
(***************************************************************************)
\* the file names that have a row in a table
filenames_of(table) == { r.filename : r \in table }

\* C12: no step of any run, forced or not, and no change of the corpus takes a file
\* name out of table workflows; and when a run returns with no edit since it
\* started, every row it found whose name has no file in the corpus is still there,
\* every column as it was.
C12_NeverDeleted ==
  /\ [][filenames_of(workflows) \subseteq filenames_of(workflows')]_vars
  /\ [](pc = "done" /\ clean =>
          \A r \in snap :
            (\A p \in Paths : basename(p) = r.filename => disk[p] = NoFile)
              => r \in workflows)

\* a forced run returned after it wrote a row, and a row of a file that is no
\* longer in the corpus is there as the run found it
C12_Witness ==
  /\ pc = "done"
  /\ clean
  /\ force_reindex
  /\ stats.processed >= 1
  /\ \E r \in snap \cap workflows :
       \A p \in Paths : basename(p) = r.filename => disk[p] = NoFile

\* C11: of the runs /api/reindex started, at most one is between its start and its
\* return at any time.
C11_OneRunInFlight ==
  Cardinality(in_flight) <= 1

\* C19: a node list all of whose nodes have types of the excluded kinds, whatever
\* their names, has no integrations.
C19_Exclusion ==
  (/\ analysis # no_analysis
   /\ \A i \in 1..Len(nodes) : nodes[i].type \in UtilityTypes)
    => analysis.integrations = {}

\* C20: the trigger type is Complex exactly when the list has more than 10 nodes and
\* more than 3 distinct integrations, whatever the nodes signal; otherwise it is
\* the label the loop over the nodes arrived at.
C20_ComplexEscalation ==
  analysis # no_analysis =>
    LET escalate == Len(nodes) > 10 /\ Cardinality(analysis.integrations) > 3
    IN  /\ analysis.trigger_type = "Complex" <=> escalate
        /\ ~escalate => analysis.trigger_type = nodes_loop(nodes, 1, "Manual", {}).trigger_type

\* a list with a webhook node came out Complex
C20_Witness ==
  /\ analysis.trigger_type = "Complex"
  /\ \E i \in 1..Len(nodes) : nodes[i].type = "n8n-nodes-base.webhook"

\* the calls of search_workflows that returned
Returned == call.op = "search_workflows" /\ ~reply.raised

\* the text of a call is empty or blank
NoText(c) == str_strip(Chars(c.query)) = << >>

\* the tokens of the indexed columns of a row
tokens_of(w) == fts5_tokens(fts_entry(w))

\* what a call of search_workflows asks of a row
Asked(w, c) ==
  /\ c.trigger_filter # "all" => w.trigger_type = c.trigger_filter
  /\ c.complexity_filter # "all" => w.complexity = c.complexity_filter
  /\ c.active_only => w.active = TRUE
  /\ ~NoText(c) => occurrences(tokens_of(w), str_lower(str_strip(Chars(c.query)))) > 0

\* the pages of a call over the catalog as it is, one after the other: those at
\* offset k * limit, (k + 1) * limit, ... up to the last page that is not empty
RECURSIVE Pages(_, _)
Pages(c, k) ==
  LET page == search_workflows(committed_store, c.query, c.trigger_filter,
                               c.complexity_filter, c.active_only, c.limit,
                               k * c.limit).results
  IN  IF page = << >> THEN << >> ELSE page \o Pages(c, k + 1)

\* C13: a call of search_workflows or of search_by_category, whatever its arguments
\* and whether it returns or raises, leaves the table and the index as they were;
\* the table and the index change only at the commit of a run of index_all_workflows
C13_ReadOnly ==
  [][ /\ (call' # call => UNCHANGED committed_vars)
      /\ (~UNCHANGED committed_vars => pc = "loop" /\ pc' = "done") ]_vars

\* a call over a catalog with rows has raised
C13_Witness ==
  /\ call.op = "search_workflows"
  /\ reply.raised
  /\ workflows # {}
  /\ workflows_fts # {}

\* C14: every row search_workflows returns meets all the filters of the call and,
\* when there is a text, has it among its tokens; total is the number of rows of the
\* catalog that do, whatever limit and offset are
C14_Filtering ==
  Returned =>
    /\ \A i \in DOMAIN reply.results :
         \E w \in workflows : w.id = reply.results[i].id /\ Asked(w, call)
    /\ reply.total = Cardinality({ w \in workflows : Asked(w, call) })

\* a call with a text and a filter returned a row, another row has the text and not
\* the trigger, and others have the trigger and not the text
C14_Witness ==
  /\ Returned
  /\ ~NoText(call)
  /\ call.trigger_filter # "all"
  /\ Len(reply.results) >= 1
  /\ \E w \in workflows :
       Asked(w, [call EXCEPT !.trigger_filter = "all"]) /\ ~Asked(w, call)
  /\ \E w \in workflows :
       Asked(w, [call EXCEPT !.query = ""]) /\ ~Asked(w, call)

\* C15: the total a call returns at offset 0 is the number of rows of its pages at
\* offset 0, limit, 2 * limit, ... up to the last page that is not empty
C15_Pagination ==
  (Returned /\ call.offset = 0) => reply.total = Len(Pages(call, 0))

\* a call at offset 0 whose rows fill three pages or more
C15_Witness ==
  /\ Returned
  /\ call.offset = 0
  /\ reply.total >= 3 * call.limit

C17_CategoryClosure ==
  (call.op = "search_by_category" /\ call.category \in DOMAIN service_categories) =>
    \A i \in DOMAIN reply.results :
      \E k \in DOMAIN reply.results[i].integrations,
         n \in DOMAIN service_categories[call.category] :
        reply.results[i].integrations[k] = service_categories[call.category][n]

\* C18: for a key that is no category search_by_category returns no rows and the
\* total 0, does not raise and does not go to the store
C18_UnknownCategory ==
  (call.op = "search_by_category" /\ call.category \notin DOMAIN service_categories) =>
    /\ reply.results = << >>
    /\ reply.total = 0
    /\ ~reply.raised
    /\ ~reply.connected

\* a call with a key that is no category, over a catalog with rows
C18_Witness ==
  /\ call.op = "search_by_category"
  /\ call.category \notin DOMAIN service_categories
  /\ workflows # {}

(***************************************************************************)
(* C21 to C30.                                                             *)
(***************************************************************************)
\* C21: the record of every document has complexity low iff node_count <= 5, medium
\* iff 5 < node_count <= 15 and high iff node_count > 15, node_count being the
\* number of nodes of the document: the complexity depends on nothing else.
C21_Complexity ==
  workflow_data # no_workflow =>
    LET n == workflow_data.node_count
    IN  /\ n = Len(dict_get(document.data, "nodes", << >>))
        /\ workflow_data.complexity = "low" <=> n <= 5
        /\ workflow_data.complexity = "medium" <=> (5 < n /\ n <= 15)
        /\ workflow_data.complexity = "high" <=> n > 15

\* a document of 15 nodes that has a declared name and description came out medium
C21_Witness ==
  /\ workflow_data # no_workflow
  /\ workflow_data.node_count = 15
  /\ workflow_data.complexity = "medium"
  /\ "name" \in DOMAIN document.data
  /\ "description" \in DOMAIN document.data

\* C22: the record of the file 1234_Slack_NotifyOnError_Webhook.json with a webhook
\* node and a slack node, and no declared name or description, has the name
\* "Slack Notifyonerror Webhook", trigger type Webhook, complexity low,
\* integrations ["Slack"] and a generated description that mentions Slack.
C22_WebhookSlack ==
  LET scenario ==
        /\ document.filename = "1234_Slack_NotifyOnError_Webhook.json"
        /\ DOMAIN document.data = {"nodes"}
        /\ Len(document.data.nodes) = 2
        /\ document.data.nodes[1].type = "n8n-nodes-base.webhook"
        /\ document.data.nodes[2].type = "n8n-nodes-base.slack"
  IN
  (workflow_data # no_workflow /\ scenario) =>
    /\ workflow_data.name = "Slack Notifyonerror Webhook"
    /\ workflow_data.trigger_type = "Webhook"
    /\ workflow_data.complexity = "low"
    /\ workflow_data.integrations = json_dumps(<< "Slack" >>)
    /\ workflow_data.description # ""
    /\ str_in(Chars("Slack"), Chars(workflow_data.description))

\* C27: the name of the record is the declared name (without the blanks around it),
\* unless that is empty, is the bare file name or starts with "My workflow"; then
\* it is the name synthesized from the file name, whatever the file name: the bare
\* file name split at the underscores, a leading segment of digits dropped, each
\* token left with its first letter in upper case and the rest in lower case, HTTP
\* and API in upper case.
C27_NameResolution ==
  workflow_data # no_workflow =>
    LET declared == str_strip(Chars(dict_get(document.data, "name", "")))
        usable == /\ declared # << >>
                  /\ Str(declared) # bare_filename(document.filename)
                  /\ ~str_startswith(declared, Chars("My workflow"))
        parts0 == str_split(Chars(bare_filename(document.filename)), "_")
        parts  == IF str_isdigit(parts0[1]) THEN Tail(parts0) ELSE parts0
        token(part) ==
          CASE str_lower(part) = Chars("http") -> Chars("HTTP")
            [] str_lower(part) = Chars("api")  -> Chars("API")
            [] OTHER                           -> str_capitalize(part)
        synthesized == Str(str_join(<< " " >>, [i \in 1..Len(parts) |-> token(parts[i])]))
    IN  workflow_data.name = IF usable THEN Str(declared) ELSE synthesized

\* C29: a second analysis of the same file returns the record of the first, the
\* order of the integrations and the generated description included.
C29_Deterministic ==
  [][workflow_data # no_workflow => workflow_data' = workflow_data]_vars

\* C24: of a list that does not escalate to Complex: with a node whose type or name
\* contains "webhook" and no node whose type or name contains "cron" or "schedule",
\* the trigger type is Webhook; with a node whose type or name contains "cron" or
\* "schedule" and no node that contains "webhook", it is Scheduled; with neither,
\* it is Webhook if a node's type contains "trigger" and not "manual", and Manual
\* otherwise.
C24_TriggerClassification ==
  LET lower(node, key) == str_lower(Chars(dict_get(node, key, "")))
      webhook(node) == \/ str_in(Chars("webhook"), lower(node, "type"))
                       \/ str_in(Chars("webhook"), lower(node, "name"))
      schedule(node) == \E key \in {"type", "name"}, word \in {"cron", "schedule"} :
                          str_in(Chars(word), lower(node, key))
      generic(node) == /\ str_in(Chars("trigger"), lower(node, "type"))
                       /\ ~str_in(Chars("manual"), lower(node, "type"))
      any(signal(_)) == \E i \in 1..Len(nodes) : signal(nodes[i])
  IN  (/\ analysis # no_analysis
       /\ ~(Len(nodes) > 10 /\ Cardinality(analysis.integrations) > 3))
        => /\ (any(webhook) /\ ~any(schedule)) => analysis.trigger_type = "Webhook"
           /\ (any(schedule) /\ ~any(webhook)) => analysis.trigger_type = "Scheduled"
           /\ (~any(webhook) /\ ~any(schedule))
                => analysis.trigger_type = IF any(generic) THEN "Webhook" ELSE "Manual"

\* C25: a node whose type stands for a service adds that service to the
\* integrations, whatever its name mentions.
C25_TypeBeforeName ==
  analysis # no_analysis =>
    \A i \in 1..Len(nodes) :
      LET service_name == type_service_name(Chars(nodes[i].type))
      IN  service_name \notin {"", "None", None} => service_name \in analysis.integrations

\* C26: of a list that does not escalate to Complex and has nodes with "webhook" in
\* the type or the name, or "cron" or "schedule" in the type, the last such node
\* decides: Webhook if it has "webhook", Scheduled otherwise, whatever trigger nodes
\* the list has besides; a list with no such node is Webhook if a node's type
\* contains "trigger" and not "manual", and Manual otherwise.
C26_TriggerTieBreak ==
  LET lower(node, key) == str_lower(Chars(dict_get(node, key, "")))
      webhook(node) == \/ str_in(Chars("webhook"), lower(node, "type"))
                       \/ str_in(Chars("webhook"), lower(node, "name"))
      schedule(node) == \/ str_in(Chars("cron"), lower(node, "type"))
                        \/ str_in(Chars("schedule"), lower(node, "type"))
      generic(node) == /\ str_in(Chars("trigger"), lower(node, "type"))
                       /\ ~str_in(Chars("manual"), lower(node, "type"))
      signals == { i \in 1..Len(nodes) : webhook(nodes[i]) \/ schedule(nodes[i]) }
      last == CHOOSE i \in signals : \A j \in signals : j <= i
  IN  (/\ analysis # no_analysis
       /\ ~(Len(nodes) > 10 /\ Cardinality(analysis.integrations) > 3))
        => analysis.trigger_type =
             IF signals # {}
             THEN IF webhook(nodes[last]) THEN "Webhook" ELSE "Scheduled"
             ELSE IF \E i \in 1..Len(nodes) : generic(nodes[i]) THEN "Webhook"
             ELSE "Manual"

\* a node of a schedule type named after a webhook, then a cron node, then the
\* trigger node of a service: the cron node decided
C26_Witness ==
  /\ analysis.trigger_type = "Scheduled"
  /\ nodes = << [type |-> "n8n-nodes-base.scheduleTrigger", name |-> "Webhook poll"],
                [type |-> "n8n-nodes-base.cron", name |-> "Cron"],
                [type |-> "n8n-nodes-base.slackTrigger", name |-> "Slack"] >>

\* C23: at every point of a run the files counted in processed, skipped and errors,
\* the file being analyzed and the files not yet visited are the files the run
\* enumerated, so a run that returns has counted each file once; a run that finds
\* no file returns three zeros and leaves the table as it found it.
C23_RunAccounting ==
  LET counted == stats.processed + stats.skipped + stats.errors
  IN  /\ pc = "loop" => counted + Len(json_files) = n_files
      /\ pc \in {"analyze", "getsize", "gethash"} => counted + Len(json_files) + 1 = n_files
      /\ pc = "done" => counted = n_files
      /\ (pc = "done" /\ n_files = 0) => (stats = no_stats /\ workflows = snap)

\* a run over a corpus with no file returned, the table holding the rows of the
\* files that are gone
C23_Witness ==
  /\ pc = "done"
  /\ runs = 2
  /\ n_files = 0
  /\ Present = {}
  /\ workflows # {}

\* C28: while a run is in progress, and after it raised, the committed table is the
\* one the run found; the table and the index change in one step only, the commit
\* at the end of the run, which makes all upserts of the run visible together.
C28_CommitVisibility ==
  /\ [](pc \in {"loop", "analyze", "getsize", "gethash", "raised"} => workflows = snap)
  /\ [][ ~UNCHANGED committed_vars =>
           /\ pc = "loop" /\ pc' = "done"
           /\ workflows' = conn.workflows
           /\ workflows_fts' = conn.workflows_fts
           /\ sqlite_sequence' = conn.sqlite_sequence ]_vars

\* a run has made two upserts and has files left to visit: its connection sees the
\* two rows, the committed table has none of them
C28_Witness ==
  /\ pc = "loop"
  /\ json_files # << >>
  /\ stats.processed = 2
  /\ Cardinality(conn.workflows \ workflows) = 2
  /\ workflows = snap

\* C30: every row a call with a text returns is a row of the table whose own
\* indexed columns hold the word asked for, and no file name is returned twice,
\* whatever entries of replaced rows the index still holds.
C30_CurrentRowsOnly ==
  (Returned /\ ~NoText(call)) =>
    LET term == str_lower(str_strip(Chars(call.query)))
    IN  /\ \A i \in DOMAIN reply.results :
             \E w \in workflows : /\ result_of(w) = reply.results[i]
                                  /\ occurrences(tokens_of(w), term) > 0
        /\ \A i, j \in DOMAIN reply.results :
             reply.results[i].filename = reply.results[j].filename => i = j

\* a call asked for a word that the index holds for a replaced row only: the file
\* of that row is in the table, without the word, and is not returned
C30_Witness ==
  /\ Returned
  /\ ~NoText(call)
  /\ \E e \in workflows_fts :
       /\ occurrences(fts5_tokens(e), str_lower(str_strip(Chars(call.query)))) > 0
       /\ \A w \in workflows : w.id # e.rowid
       /\ \E w \in workflows : w.filename = e.filename
       /\ \A i \in DOMAIN reply.results : reply.results[i].filename # e.filename

====
